---- MODULE Spec2Model ----
(***************************************************************************)
(* The system-ops table of the vioscsi virtio-over-PCI transport           *)
(* (src/vioscsi/virtio_pci.c): register access, the contiguous-page bump   *)
(* allocator, PCI configuration reads, the BAR mapping cache and the MSI-X *)
(* vector lookup, as one state machine over the adapter extension.         *)
(*                                                                         *)
(* The Win32 platform build is modelled (src/unnamed/part_000, 53-55):     *)
(* size_t, ULONG_PTR, ULONG and pointers are 32 bits wide.  A 32-bit word  *)
(* is the pair <<hi, lo>> of its 16-bit halves, so every value of the type *)
(* is representable and arithmetic wraps modulo 2^32 as in the build.      *)
(***************************************************************************)
EXTENDS Integers, Sequences, FiniteSets, TLC

\* ------------------------------------------------------------- bounds
\* Pages in the uncached extension handed to the allocator.
MaxExtentPages == 3
\* Mapping requests (StorPortGetDeviceBase calls) explored per behaviour.
MaxMapRequests == 2

\* ------------------------------------------------- platform constants
PAGE_SIZE == 4096
PCI_TYPE0_ADDRESSES == 6
VIRTIO_MSI_NO_VECTOR == 65535
PORT_MASK == 65535
\* INT_MAX of the 32-bit int parameters.
INT_MAX == 2147483647

\* --------------------------------------------------- 32-bit arithmetic
Half == 2 ^ 16

U32(hi, lo) == <<hi, lo>>

NULL == U32(0, 0)

\* A value below 2^16 as a 32-bit word (returned values are kept as words).
Word(n) == U32(0, n)

\* Unsigned addition modulo 2^32.
Add32(a, b) ==
    LET lo == a[2] + b[2]
        hi == a[1] + b[1] + (lo \div Half)
    IN  U32(hi % Half, lo % Half)

\* Unsigned comparisons.
Lt32(a, b) == a[1] < b[1] \/ (a[1] = b[1] /\ a[2] < b[2])

Le32(a, b) == a = b \/ Lt32(a, b)

\* Bitwise and of two naturals.
RECURSIVE BitAnd(_, _)
BitAnd(x, y) ==
    IF x = 0 \/ y = 0
    THEN 0
    ELSE ((x % 2) * (y % 2)) + 2 * BitAnd(x \div 2, y \div 2)

And32(a, b) == U32(BitAnd(a[1], b[1]), BitAnd(a[2], b[2]))

\* ~m for an int constant m in 0 .. 0xFFFF, converted to ULONG_PTR.
NotLow32(m) == U32(Half - 1, (Half - 1) - m)

\* The number of whole pages that hold n bytes, as a plain integer.
PagesOf(n) == n[1] * (Half \div PAGE_SIZE) + ((n[2] + PAGE_SIZE - 1) \div PAGE_SIZE)

\* The page a value lies in, as a plain integer.
PageIndex(n) == n[1] * (Half \div PAGE_SIZE) + (n[2] \div PAGE_SIZE)

Bytes(pages) == U32(pages \div (Half \div PAGE_SIZE), (pages % (Half \div PAGE_SIZE)) * PAGE_SIZE)

Min(a, b) == IF a < b THEN a ELSE b

\* ------------------------------------------------------------- state
VARIABLES
    pageAllocationVa,    \* adaptExt->pageAllocationVa
    pageAllocationSize,  \* adaptExt->pageAllocationSize
    pageOffset,          \* adaptExt->pageOffset
    pci_bars,            \* adaptExt->pci_bars[PCI_TYPE0_ADDRESSES]
    pci_config_buf,      \* adaptExt->pci_config_buf
    msix_enabled,        \* adaptExt->msix_enabled
    halted,              \* the machine faulted inside a call
    call,                \* the latest call through the table and its arguments
    ret,                 \* what that call returned
    issued,              \* the host primitives that call invoked, in order
    touched,             \* the pci_bars indexes that call dereferenced
    mapRequests,         \* StorPortGetDeviceBase calls made so far, per BAR
    requested,           \* pages asked of the allocator so far (saturating)
    handed               \* per extent page: allocations whose range holds it

adapter == <<pageAllocationVa, pageAllocationSize, pageOffset, pci_bars,
             pci_config_buf, msix_enabled>>

vars == <<pageAllocationVa, pageAllocationSize, pageOffset, pci_bars,
          pci_config_buf, msix_enabled, halted, call, ret, issued, touched,
          mapRequests, requested, handed>>

\* ------------------------------------------------- initial adapter state
\* The uncached extension: page aligned, a whole number of pages, and not
\* wrapping the address space.
ExtentBase == U32(34080, 12288)

\* The BAR table as the adapter's setup leaves it: BAR 0 a 0x1000-byte
\* memory BAR, BAR 4 a 0x4000-byte memory BAR, BAR 5 a 0x40-byte port BAR,
\* the others unused; nothing mapped yet.
BarSetup(i) ==
    CASE i = 0 -> [BasePA |-> U32(65215, 0), uLength |-> U32(0, 4096),
                   pBase |-> NULL, bPortSpace |-> FALSE]
      [] i = 5 -> [BasePA |-> U32(0, 49152), uLength |-> U32(0, 64),
                   pBase |-> NULL, bPortSpace |-> TRUE]
      [] i = 4 -> [BasePA |-> U32(65024, 0), uLength |-> U32(0, 16384),
                   pBase |-> NULL, bPortSpace |-> FALSE]
      [] OTHER -> [BasePA |-> NULL, uLength |-> NULL,
                   pBase |-> NULL, bPortSpace |-> FALSE]

\* The snapshot of PCI configuration space: the bytes at 0x2C .. 0x2F
\* (subsystem vendor and device id), the rest of the buffer left out.
ConfigOffsets == 44 .. 47

ConfigByte(i) == CASE i = 44 -> 244 [] i = 45 -> 26 [] i = 46 -> 52 [] OTHER -> 18

Bars == 0 .. (PCI_TYPE0_ADDRESSES - 1)

Init ==
    /\ pageAllocationVa = ExtentBase
    /\ pageAllocationSize = Bytes(MaxExtentPages)
    /\ pageOffset = NULL
    /\ pci_bars = [i \in Bars |-> BarSetup(i)]
    /\ pci_config_buf = [i \in ConfigOffsets |-> ConfigByte(i)]
    /\ msix_enabled \in BOOLEAN
    /\ halted = FALSE
    /\ call = [op |-> "none"]
    /\ ret = NULL
    /\ issued = <<>>
    /\ touched = {}
    /\ mapRequests = [i \in Bars |-> 0]
    /\ requested = 0
    /\ handed = [i \in 0 .. MaxExtentPages |-> 0]

\* What a call leaves alone unless it says otherwise.
Quiet == issued' = <<>> /\ touched' = {}

NoAlloc == UNCHANGED <<pageOffset, requested, handed, halted>>

NoMap == UNCHANGED <<pci_bars, mapRequests>>

Fixed == UNCHANGED <<pageAllocationVa, pageAllocationSize, pci_config_buf, msix_enabled>>

\* ---------------------------------------------------- register access
\* The mask applied without its complement.
MaskNotComplemented(ulRegister) == And32(ulRegister, U32(0, PORT_MASK)) # NULL

\* ulRegister & ~PORT_MASK (lines 38, 47, 56, 65, 74, 83).
UsesMemorySpace(ulRegister) == And32(ulRegister, NotLow32(PORT_MASK)) # NULL

\* The host accessor a register call ends in: Register (memory space) or
\* Port, by the address; Read or Write and the width by the caller.
Accessor(dir, width, ulRegister) ==
    "StorPort" \o dir
    \o (IF UsesMemorySpace(ulRegister) THEN "Register" ELSE "Port") \o width

RegisterInputs == {U32(0, 65535), U32(1, 0), U32(65471, 20)}

\* What the device answers a read with.
DeviceValue == Word(1)

RegisterRead(op, width, ulRegister) ==
    /\ ~halted
    /\ call' = [op |-> op, ulRegister |-> ulRegister]
    /\ issued' = <<[fn |-> Accessor("Read", width, ulRegister), Register |-> ulRegister]>>
    /\ ret' = DeviceValue
    /\ touched' = {}
    /\ NoAlloc /\ NoMap /\ Fixed

RegisterWrite(op, width, ulRegister, value) ==
    /\ ~halted
    /\ call' = [op |-> op, ulRegister |-> ulRegister, value |-> value]
    /\ issued' = <<[fn |-> Accessor("Write", width, ulRegister),
                    Register |-> ulRegister, Value |-> value]>>
    /\ ret' = NULL
    /\ touched' = {}
    /\ NoAlloc /\ NoMap /\ Fixed

ReadVirtIODeviceRegister(ulRegister) ==
    RegisterRead("ReadVirtIODeviceRegister", "Ulong", ulRegister)

WriteVirtIODeviceRegister(ulRegister, ulValue) ==
    RegisterWrite("WriteVirtIODeviceRegister", "Ulong", ulRegister, ulValue)

ReadVirtIODeviceByte(ulRegister) ==
    RegisterRead("ReadVirtIODeviceByte", "Uchar", ulRegister)

WriteVirtIODeviceByte(ulRegister, bValue) ==
    RegisterWrite("WriteVirtIODeviceByte", "Uchar", ulRegister, bValue)

ReadVirtIODeviceWord(ulRegister) ==
    RegisterRead("ReadVirtIODeviceWord", "Ushort", ulRegister)

WriteVirtIODeviceWord(ulRegister, wValue) ==
    RegisterWrite("WriteVirtIODeviceWord", "Ushort", ulRegister, wValue)

\* ------------------------------------------- contiguous-page allocator
\* A cursor advanced by the size as asked, not rounded.
Unrounded(size) == size

\* ROUND_TO_PAGES: ((ULONG_PTR)(Size) + PAGE_SIZE - 1) & ~(PAGE_SIZE - 1)
ROUND_TO_PAGES(size) ==
    And32(Add32(size, U32(0, PAGE_SIZE - 1)), NotLow32(PAGE_SIZE - 1))

\* The test of line 95.
AllocFits(offset, size, total) == Le32(Add32(offset, size), total)

\* The extent pages (index MaxExtentPages: anything past the extent) that
\* lie in the size bytes, rounded up to whole pages, from cursor offset.
GrantedPages(offset, size) ==
    LET first == PageIndex(offset)
        last  == first + PagesOf(size) - 1
    IN  {i \in 0 .. MaxExtentPages : first <= i /\ i <= last}

SizeInputs ==
    {U32(0, 0), U32(0, 4000), U32(0, 4096), U32(0, 4097),
     U32(65535, 61440), U32(65535, 65535)}

mem_alloc_contiguous_pages(size) ==
    LET ptr   == Add32(pageAllocationVa, pageOffset)
        rsize == ROUND_TO_PAGES(size)
        \* RtlZeroMemory(ptr, rsize) running past the extent faults: the
        \* call never returns (ret keeps its value) and the machine stops.
        fault == PageIndex(pageOffset) + PageIndex(rsize) > PageIndex(pageAllocationSize)
    IN  /\ ~halted
        /\ call' = [op |-> "mem_alloc_contiguous_pages", size |-> size]
        /\ requested' = Min(requested + PagesOf(size), MaxExtentPages + 1)
        /\ IF AllocFits(pageOffset, size, pageAllocationSize)
           THEN /\ pageOffset' = Add32(pageOffset, rsize)
                /\ halted' = fault
                /\ ret' = IF fault THEN ret ELSE ptr
                /\ handed' = IF fault THEN handed
                             ELSE [i \in 0 .. MaxExtentPages |->
                                     IF i \in GrantedPages(pageOffset, size)
                                     THEN Min(handed[i] + 1, 2) ELSE handed[i]]
           ELSE /\ ret' = NULL
                /\ UNCHANGED <<pageOffset, halted, handed>>
        /\ Quiet /\ NoMap /\ Fixed

mem_free_contiguous_pages(virt) ==
    /\ ~halted
    /\ call' = [op |-> "mem_free_contiguous_pages", virt |-> virt]
    /\ ret' = NULL
    /\ Quiet /\ NoAlloc /\ NoMap /\ Fixed

\* -------------------------------- physical addresses, non-paged blocks
\* StorPortGetPhysicalAddress: the host's answer for an address it owns.
PhysicalOf(virt) == U32(virt[1] % 32768, virt[2])

mem_get_physical_address(virt) ==
    /\ ~halted
    /\ call' = [op |-> "mem_get_physical_address", virt |-> virt]
    /\ issued' = <<[fn |-> "StorPortGetPhysicalAddress", virt |-> virt]>>
    /\ ret' = PhysicalOf(virt)
    /\ touched' = {}
    /\ NoAlloc /\ NoMap /\ Fixed

\* VioScsiPoolAlloc lives outside this file: a block of the adapter's pool,
\* or NULL.
PoolBlocks == {NULL, U32(34081, 0)}

mem_alloc_nonpaged_block(size) ==
    /\ ~halted
    /\ call' = [op |-> "mem_alloc_nonpaged_block", size |-> size]
    /\ issued' = <<[fn |-> "VioScsiPoolAlloc", size |-> size]>>
    /\ ret' \in PoolBlocks
    /\ touched' = {}
    /\ NoAlloc /\ NoMap /\ Fixed

mem_free_nonpaged_block(addr) ==
    /\ ~halted
    /\ call' = [op |-> "mem_free_nonpaged_block", addr |-> addr]
    /\ ret' = NULL
    /\ Quiet /\ NoAlloc /\ NoMap /\ Fixed

\* ------------------------------------------------- PCI configuration reads
\* Little-endian composition of the width bytes at where (x86).
ConfigValue(buf, where, width) ==
    CASE width = 1 -> Word(buf[where])
      [] width = 2 -> Word(buf[where] + 256 * buf[where + 1])
      [] OTHER     -> U32(buf[where + 2] + 256 * buf[where + 3],
                          buf[where] + 256 * buf[where + 1])

ConfigRead(op, where, width) ==
    /\ ~halted
    /\ call' = [op |-> op, where |-> where]
    \* *bVal, *wVal, *dwVal; the function itself returns 0.
    /\ ret' = ConfigValue(pci_config_buf, where, width)
    /\ Quiet /\ NoAlloc /\ NoMap /\ Fixed

pci_read_config_byte(where) == ConfigRead("pci_read_config_byte", where, 1)

pci_read_config_word(where) == ConfigRead("pci_read_config_word", where, 2)

pci_read_config_dword(where) == ConfigRead("pci_read_config_dword", where, 4)

\* ------------------------------------------------------ BAR mapping cache
\* The bound check of lines 159 and 168 (bar is a signed int).
InTable(bar) == bar < PCI_TYPE0_ADDRESSES

\* What pci_bars[bar] denotes: the table entry for an index inside the
\* array; for an index the bound check lets through below the array, the
\* memory in front of it, whose contents the layout of the adapter
\* extension decides (any of StraySlots).
StraySlots ==
    {[BasePA |-> NULL, uLength |-> NULL, pBase |-> NULL, bPortSpace |-> FALSE],
     [BasePA |-> U32(1, 2), uLength |-> U32(65535, 65535),
      pBase |-> U32(34080, 16), bPortSpace |-> TRUE]}

Slots(bar) == IF bar \in Bars THEN {pci_bars[bar]} ELSE StraySlots

\* StorPortGetDeviceBase: the base the host maps the range at (the port
\* number itself for a port range), or NULL when the host refuses.
DeviceBase(pBar) ==
    IF pBar.bPortSpace THEN pBar.BasePA ELSE Add32(pBar.BasePA, U32(256, 0))

HostBases(pBar) == {NULL, DeviceBase(pBar)}

GetDeviceBase(pBar) ==
    [fn |-> "StorPortGetDeviceBase", BasePA |-> pBar.BasePA,
     uLength |-> pBar.uLength, InIoSpace |-> pBar.bPortSpace]

\* A lookup that maps on every call.
AlwaysMaps(pBar) == TRUE

\* Line 170: the mapping is requested only while none is cached.
NeedsMapping(pBar) == pBar.pBase = NULL

\* A lookup that takes maxlen as a limit on the offset.
MapBounded(pBar, offset, maxlen) ==
    IF pBar.pBase # NULL /\ Lt32(offset, pBar.uLength) /\ Lt32(offset, maxlen)
    THEN Add32(pBar.pBase, offset)
    ELSE NULL

\* Lines 179-183, on the descriptor as the request (if any) left it.
MapResult(pBar, offset, maxlen) ==
    IF pBar.pBase # NULL /\ Lt32(offset, pBar.uLength)
    THEN Add32(pBar.pBase, offset)
    ELSE NULL

TotalMapRequests == mapRequests[0] + mapRequests[1] + mapRequests[2]
                    + mapRequests[3] + mapRequests[4] + mapRequests[5]

BarInputs == {-1, 0, PCI_TYPE0_ADDRESSES - 1, PCI_TYPE0_ADDRESSES}

OffsetInputs == {U32(0, 1280), U32(0, 4096)}

MaxlenInputs == {U32(0, 0), U32(0, 256)}

pci_get_resource_len(bar) ==
    /\ ~halted
    /\ call' = [op |-> "pci_get_resource_len", bar |-> bar]
    /\ IF InTable(bar)
       THEN /\ \E pBar \in Slots(bar) : ret' = pBar.uLength
            /\ touched' = {bar}
       ELSE /\ ret' = NULL
            /\ touched' = {}
    /\ issued' = <<>>
    /\ NoAlloc /\ NoMap /\ Fixed

pci_map_address_range(bar, offset, maxlen) ==
    /\ ~halted
    /\ call' = [op |-> "pci_map_address_range", bar |-> bar,
                offset |-> offset, maxlen |-> maxlen]
    /\ IF InTable(bar)
       THEN /\ touched' = {bar}
            /\ \E pBar \in Slots(bar) :
                 IF NeedsMapping(pBar)
                 THEN /\ bar \in Bars => TotalMapRequests < MaxMapRequests
                      /\ issued' = <<GetDeviceBase(pBar)>>
                      /\ \E base \in HostBases(pBar) :
                           /\ ret' = MapResult([pBar EXCEPT !.pBase = base], offset, maxlen)
                           /\ IF bar \in Bars
                              THEN /\ pci_bars' = [pci_bars EXCEPT ![bar].pBase = base]
                                   /\ mapRequests' = [mapRequests EXCEPT ![bar] = @ + 1]
                              ELSE NoMap
                 ELSE /\ issued' = <<>>
                      /\ ret' = MapResult(pBar, offset, maxlen)
                      /\ NoMap
       ELSE /\ ret' = NULL
            /\ Quiet
            /\ NoMap
    /\ NoAlloc /\ Fixed

\* A release that drops the mapping holding address.
DropMapping(bars, address) ==
    [i \in Bars |-> IF bars[i].pBase = address
                    THEN [bars[i] EXCEPT !.pBase = NULL] ELSE bars[i]]

\* Lines 186-193: the table after an unmap (nothing is released).
BarsAfterUnmap(bars, address) == bars

pci_unmap_address_range(address) ==
    /\ ~halted
    /\ call' = [op |-> "pci_unmap_address_range", address |-> address]
    /\ ret' = NULL
    /\ pci_bars' = BarsAfterUnmap(pci_bars, address)
    /\ UNCHANGED mapRequests
    /\ Quiet /\ NoAlloc /\ Fixed

\* ------------------------------------------------ interrupt vector lookup
\* queue + 1 for queue = INT_MAX overflows the int: the build may hand
\* back the wrapped value's low 16 bits or anything else.
OverflowedVectors == {0, VIRTIO_MSI_NO_VECTOR}

\* Vectors numbered from 0 rather than 1.
VectorsFromZero(enabled, queue) ==
    IF queue >= 0 /\ enabled THEN {queue % Half} ELSE {VIRTIO_MSI_NO_VECTOR}

\* Configuration changes routed to vector 0 under MSI-X.
ConfigOnVectorZero(enabled, queue) ==
    IF enabled
    THEN IF queue < 0 THEN {0}
         ELSE IF queue = INT_MAX THEN OverflowedVectors ELSE {(queue + 1) % Half}
    ELSE {VIRTIO_MSI_NO_VECTOR}

\* The values vdev_get_msix_vector can return (u16 vector).
MsixVectors(enabled, queue) ==
    IF queue >= 0
    THEN IF enabled
         THEN IF queue = INT_MAX THEN OverflowedVectors
              ELSE {(queue + 1) % Half}
         ELSE {VIRTIO_MSI_NO_VECTOR}
    ELSE {VIRTIO_MSI_NO_VECTOR}

QueueInputs == {-2, -1, 0, 1, 65533, 65534, 65535, INT_MAX}

vdev_get_msix_vector(queue) ==
    /\ ~halted
    /\ call' = [op |-> "vdev_get_msix_vector", queue |-> queue]
    /\ \E vector \in MsixVectors(msix_enabled, queue) : ret' = Word(vector)
    /\ Quiet /\ NoAlloc /\ NoMap /\ Fixed

\* ------------------------------------------------------------------ sleep
\* 1000 * msecs in unsigned int.
StallMicroseconds(msecs) ==
    LET lo == msecs[2] * 1000
        hi == msecs[1] * 1000 + (lo \div Half)
    IN  U32(hi % Half, lo % Half)

vdev_sleep(msecs) ==
    /\ ~halted
    /\ call' = [op |-> "vdev_sleep", msecs |-> msecs]
    /\ issued' = <<[fn |-> "KeStallExecutionProcessor",
                    MicroSeconds |-> StallMicroseconds(msecs)]>>
    /\ ret' = NULL
    /\ touched' = {}
    /\ NoAlloc /\ NoMap /\ Fixed

\* --------------------------------------------------- the system-ops table
Next ==
    \/ \E ulRegister \in RegisterInputs : ReadVirtIODeviceByte(ulRegister)
    \/ \E ulRegister \in RegisterInputs : ReadVirtIODeviceWord(ulRegister)
    \/ \E ulRegister \in RegisterInputs : ReadVirtIODeviceRegister(ulRegister)
    \/ \E ulRegister \in RegisterInputs : WriteVirtIODeviceByte(ulRegister, Word(165))
    \/ \E ulRegister \in RegisterInputs : WriteVirtIODeviceWord(ulRegister, Word(48879))
    \/ \E ulRegister \in RegisterInputs :
         WriteVirtIODeviceRegister(ulRegister, U32(57005, 48879))
    \/ \E size \in SizeInputs : mem_alloc_contiguous_pages(size)
    \/ \E virt \in {ExtentBase} : mem_free_contiguous_pages(virt)
    \/ mem_get_physical_address(ExtentBase)
    \/ mem_alloc_nonpaged_block(U32(0, 64))
    \/ mem_free_nonpaged_block(U32(34081, 0))
    \/ pci_read_config_byte(47)
    \/ pci_read_config_word(46)
    \/ pci_read_config_dword(44)
    \/ \E bar \in BarInputs : pci_get_resource_len(bar)
    \/ \E bar \in BarInputs, offset \in OffsetInputs, maxlen \in MaxlenInputs :
         pci_map_address_range(bar, offset, maxlen)
    \/ \E address \in {DeviceBase(BarSetup(0))} : pci_unmap_address_range(address)
    \/ \E queue \in QueueInputs : vdev_get_msix_vector(queue)
    \/ vdev_sleep(U32(0, 10))

Spec == Init /\ [][Next]_vars

\* The callback table handed to the ring engine: slot |-> function.
VioScsiSystemOps ==
    [vdev_read_byte |-> "ReadVirtIODeviceByte",
     vdev_read_word |-> "ReadVirtIODeviceWord",
     vdev_read_dword |-> "ReadVirtIODeviceRegister",
     vdev_write_byte |-> "WriteVirtIODeviceByte",
     vdev_write_word |-> "WriteVirtIODeviceWord",
     vdev_write_dword |-> "WriteVirtIODeviceRegister",
     mem_alloc_contiguous_pages |-> "mem_alloc_contiguous_pages",
     mem_free_contiguous_pages |-> "mem_free_contiguous_pages",
     mem_get_physical_address |-> "mem_get_physical_address",
     mem_alloc_nonpaged_block |-> "mem_alloc_nonpaged_block",
     mem_free_nonpaged_block |-> "mem_free_nonpaged_block",
     pci_read_config_byte |-> "pci_read_config_byte",
     pci_read_config_word |-> "pci_read_config_word",
     pci_read_config_dword |-> "pci_read_config_dword",
     pci_get_resource_len |-> "pci_get_resource_len",
     pci_map_address_range |-> "pci_map_address_range",
     pci_unmap_address_range |-> "pci_unmap_address_range",
     vdev_get_msix_vector |-> "vdev_get_msix_vector",
     vdev_sleep |-> "vdev_sleep"]

\* ================================================================ claims
ExtentPages == PageIndex(pageAllocationSize)

ExtentEnd == Add32(pageAllocationVa, pageAllocationSize)

Allocated ==
    /\ call.op = VioScsiSystemOps.mem_alloc_contiguous_pages
    /\ ~halted
    /\ ret # NULL

PageAligned(ptr) == ptr[2] % PAGE_SIZE = 0

\* C1 as stated: while the pages asked for so far fit the extent, every
\* pointer a successful allocate returns is page aligned and lies in
\* [pageAllocationVa, pageAllocationVa + pageAllocationSize).
C1_PointerInsideExtent ==
    (Allocated /\ requested <= ExtentPages)
        => /\ PageAligned(ret)
           /\ Le32(pageAllocationVa, ret)
           /\ Lt32(ret, ExtentEnd)

\* C1 amended: while the pages asked for so far fit the extent, every
\* pointer a successful allocate returns is page aligned and lies in
\* [pageAllocationVa, pageAllocationVa + pageAllocationSize], the end of
\* the extent being returned only to a request of size 0.
C1_PointerWithinExtent ==
    (Allocated /\ requested <= ExtentPages)
        => /\ PageAligned(ret)
           /\ Le32(pageAllocationVa, ret)
           /\ Le32(ret, ExtentEnd)
           /\ (ret = ExtentEnd => call.size = NULL)

\* The third 4000-byte request of a 3-page extent has been served.
C1_Witness ==
    /\ Allocated
    /\ requested = ExtentPages
    /\ call.size = U32(0, 4000)
    /\ ret = Add32(pageAllocationVa, Bytes(ExtentPages - 1))

\* C2: the page-rounded ranges of any two successful allocations are
\* disjoint: no page is in the range of more than one allocation.
C2_RangesDisjoint == \A i \in DOMAIN handed : handed[i] <= 1

\* C3: an allocate whose size exceeds pageAllocationSize - pageOffset (the
\* same requests as those whose page-rounded size would carry pageOffset
\* past pageAllocationSize, both being whole pages) returns NULL and leaves
\* pageOffset as it was.
C3_RefusedBeyondExtent ==
    [][(/\ call'.op = VioScsiSystemOps.mem_alloc_contiguous_pages
        /\ PagesOf(call'.size) > ExtentPages - PageIndex(pageOffset))
          => (ret' = NULL /\ pageOffset' = pageOffset)]_vars

\* C4: 0 <= pageOffset <= pageAllocationSize after every operation, and
\* pageOffset never decreases from one state to the next.
C4_CursorMonotonic ==
    [][/\ Le32(pageOffset', pageAllocationSize')
       /\ Le32(pageOffset, pageOffset')]_vars

\* C5: for a BAR index outside 0 .. PCI_TYPE0_ADDRESSES - 1 the length is 0,
\* the mapping NULL, no BAR descriptor is dereferenced and no mapping is
\* requested; for an index inside, the length is the BAR's uLength.
C5_InvalidIndexRejected ==
    /\ (/\ call.op \in {VioScsiSystemOps.pci_get_resource_len,
                        VioScsiSystemOps.pci_map_address_range}
        /\ call.bar \notin Bars)
          => (ret = NULL /\ touched = {} /\ issued = <<>>)
    /\ (/\ call.op = VioScsiSystemOps.pci_get_resource_len
        /\ call.bar \in Bars)
          => ret = pci_bars[call.bar].uLength

\* C6 as stated: the host is asked to map each BAR at most once.
C6_MappedAtMostOnce == \A b \in Bars : mapRequests[b] <= 1

\* C6 amended: a call for a valid BAR with no cached base makes exactly one
\* mapping request (a refused request is made again by the next call); once
\* a base is cached no further request is ever made for that BAR, and every
\* later call for it returns that base plus the offset (NULL for an offset
\* not below the length), so equal offsets get equal pointers.
C6_CachedMappingReused ==
    [][\A b \in Bars :
         LET mapping == /\ call'.op = VioScsiSystemOps.pci_map_address_range
                        /\ call'.bar = b
         IN  /\ pci_bars[b].pBase # NULL
                  => /\ mapRequests'[b] = mapRequests[b]
                     /\ mapping =>
                          /\ issued' = <<>>
                          /\ ret' = IF Lt32(call'.offset, pci_bars[b].uLength)
                                    THEN Add32(pci_bars[b].pBase, call'.offset)
                                    ELSE NULL
             /\ (pci_bars[b].pBase = NULL /\ mapping)
                  => /\ Len(issued') = 1
                     /\ mapRequests'[b] = mapRequests[b] + 1
             /\ ~mapping => mapRequests'[b] = mapRequests[b]]_vars

\* A second call for BAR 0 answered from the cache.
C6_Witness ==
    /\ call.op = VioScsiSystemOps.pci_map_address_range
    /\ call.bar = 0
    /\ call.offset = U32(0, 1280)
    /\ mapRequests[0] = 1
    /\ issued = <<>>
    /\ ret = Add32(pci_bars[0].pBase, U32(0, 1280))
    /\ ret # U32(0, 1280)

\* C7: a BAR's pBase, once not NULL, never changes again, and only a
\* pci_map_address_range call naming that BAR changes it at all.
C7_BaseSetOnce ==
    [][\A b \in Bars :
         /\ pci_bars[b].pBase # NULL => pci_bars'[b].pBase = pci_bars[b].pBase
         /\ pci_bars'[b].pBase # pci_bars[b].pBase
              => /\ call'.op = VioScsiSystemOps.pci_map_address_range
                 /\ call'.bar = b]_vars

\* BAR 0 stays mapped across an unmap of its base, and across the mapping
\* of another BAR.
C7_Witness ==
    /\ pci_bars[0].pBase # NULL
    /\ \/ /\ call.op = VioScsiSystemOps.pci_unmap_address_range
          /\ call.address = pci_bars[0].pBase
       \/ /\ call.op = VioScsiSystemOps.pci_map_address_range
          /\ call.bar = PCI_TYPE0_ADDRESSES - 1
          /\ pci_bars[PCI_TYPE0_ADDRESSES - 1].pBase # NULL

VectorLookup == call.op = VioScsiSystemOps.vdev_get_msix_vector

\* C8 as stated: with MSI-X enabled every queue k >= 0 gets the vector
\* k + 1 as a 16-bit value, never the "no vector" value.
C8_VectorNeverSentinel ==
    (VectorLookup /\ msix_enabled /\ call.queue >= 0)
        => /\ ret = Word(((call.queue % Half) + 1) % Half)
           /\ ret # Word(VIRTIO_MSI_NO_VECTOR)

\* C8 amended: with MSI-X enabled every queue k with 0 <= k < INT_MAX gets
\* the vector (k + 1) mod 2^16, which is the "no vector" value exactly when
\* k mod 2^16 = 65534; so for 0 <= k <= 65533 it is k + 1 itself and
\* differs from "no vector".
C8_VectorIsQueuePlusOne ==
    (VectorLookup /\ msix_enabled /\ call.queue >= 0 /\ call.queue < INT_MAX)
        => /\ ret = Word((call.queue + 1) % Half)
           /\ (ret = Word(VIRTIO_MSI_NO_VECTOR)) <=> (call.queue % Half = Half - 2)
           /\ call.queue <= Half - 3
                => (ret = Word(call.queue + 1) /\ ret # Word(VIRTIO_MSI_NO_VECTOR))

\* The last queue whose vector is not the "no vector" value.
C8_Witness ==
    /\ VectorLookup
    /\ msix_enabled
    /\ call.queue = Half - 3
    /\ ret = Word(Half - 2)

\* C9: the lookup answers "no vector" for every negative queue, MSI-X
\* enabled or not, and for every queue when MSI-X is disabled, and leaves
\* the adapter's state as it was.
C9_NoVector ==
    [][call'.op = VioScsiSystemOps.vdev_get_msix_vector
         => /\ (call'.queue < 0 \/ ~msix_enabled) => ret' = Word(VIRTIO_MSI_NO_VECTOR)
            /\ adapter' = adapter
            /\ issued' = <<>>]_vars

\* The configuration-change channel looked up with MSI-X enabled.
C9_Witness ==
    /\ VectorLookup
    /\ msix_enabled
    /\ call.queue = -1
    /\ ret = Word(VIRTIO_MSI_NO_VECTOR)

\* The access kinds of the table's register slots.
RegisterSlots ==
    {<<VioScsiSystemOps.vdev_read_byte, "Read", "Uchar">>,
     <<VioScsiSystemOps.vdev_read_word, "Read", "Ushort">>,
     <<VioScsiSystemOps.vdev_read_dword, "Read", "Ulong">>,
     <<VioScsiSystemOps.vdev_write_byte, "Write", "Uchar">>,
     <<VioScsiSystemOps.vdev_write_word, "Write", "Ushort">>,
     <<VioScsiSystemOps.vdev_write_dword, "Write", "Ulong">>}

\* C10: a register access of any kind goes to memory space iff its address
\* is above 0xFFFF (has a bit outside the low 16), to port space otherwise,
\* as exactly one host access of the call's width and direction, at the
\* call's address.
C10_RoutedByAddress ==
    \A slot \in RegisterSlots :
        call.op = slot[1]
            => /\ Len(issued) = 1
               /\ issued[1].Register = call.ulRegister
               /\ issued[1].fn =
                    "StorPort" \o slot[2]
                    \o (IF Le32(U32(1, 0), call.ulRegister) THEN "Register" ELSE "Port")
                    \o slot[3]

\* A word write at the first address above the port range.
C10_Witness ==
    /\ call.op = VioScsiSystemOps.vdev_write_word
    /\ call.ulRegister = U32(1, 0)
    /\ issued = <<[fn |-> "StorPortWriteRegisterUshort",
                   Register |-> U32(1, 0), Value |-> Word(48879)]>>

MapLookup == call.op = VioScsiSystemOps.pci_map_address_range

\* C11: for a BAR index in 0..5, pci_map_address_range returns
\* pBase + offset (not NULL) exactly when the base, cached or obtained by
\* the request of this call, is not NULL and offset < uLength, and NULL
\* in every other case; maxlen has no part in the result.
C11_MapReturnsBasePlusOffset ==
    (MapLookup /\ call.bar \in Bars)
        => LET pBar == pci_bars[call.bar]
               available == pBar.pBase # NULL /\ Lt32(call.offset, pBar.uLength)
           IN  /\ available => (ret = Add32(pBar.pBase, call.offset) /\ ret # NULL)
               /\ ~available => ret = NULL

\* BAR 0 mapped by this very call, with a maxlen of 0 and an offset inside
\* the BAR: the pointer is returned all the same.
C11_Witness ==
    /\ MapLookup
    /\ call.bar = 0
    /\ call.offset = U32(0, 1280)
    /\ call.maxlen = NULL
    /\ issued # <<>>
    /\ pci_bars[0].pBase # NULL
    /\ ret = Add32(pci_bars[0].pBase, U32(0, 1280))

====
